---- MODULE Spec2Model ----
(***************************************************************************)
(* relief: the mapping elements (relief/schema/mappings.py) and the        *)
(* validators (relief/validation.py).                                      *)
(*                                                                         *)
(* A mapping element is a native dict / collections.OrderedDict whose      *)
(* entries are stored under the RAW key and hold a _Value(key, value) of   *)
(* two member elements.  Python >= 3.7 is assumed: a dict keeps its        *)
(* insertion order, so both backings are sequences of entries.             *)
(***************************************************************************)
EXTENDS Integers, Sequences, FiniteSets, TLC

(* ------------------------------ bounds --------------------------------- *)
MaxEntries == 3
MaxRawLen == 2
MaxErrors == 1
MaxBound == 2

(* --------------------------- Python values ----------------------------- *)
\* One record shape for every Python value the model handles.
PyVal(t, n, s, items) == [type |-> t, n |-> n, s |-> s, items |-> items]
PyInt(n) == PyVal("int", n, "", <<>>)
PyStr(s) == PyVal("str", 0, s, <<>>)
PyDict(items) == PyVal("dict", 0, "", items)
PyList(items) == PyVal("list", 0, "", items)
PyNone == PyVal("NoneType", 0, "", <<>>)
Unspecified == PyVal("sentinel", 0, "Unspecified", <<>>)
NotUnserializable == PyVal("sentinel", 0, "NotUnserializable", <<>>)
\* what is left of the recorded raw value after `del self._raw_value`
NoRawValue == PyVal("deleted", 0, "_raw_value", <<>>)

Return(v) == [kind |-> "return", exc |-> "", val |-> v]
Raise(e) == [kind |-> "raise", exc |-> e, val |-> PyNone]

(* ------------------------- scalar member schemas ----------------------- *)
\* int("1") = 1, int("2") = 2; any other text is not a number.
ParseInt(s) == CASE s = "1" -> 1 [] s = "2" -> 2 [] OTHER -> -1
IsNumeral(s) == s \in {"1", "2"}
FormatInt(n) ==
    CASE n = 0 -> "0" [] n = 1 -> "1" [] n = 2 -> "2" [] n = 3 -> "3"
      [] n = 4 -> "4" [] n = 5 -> "5" [] n = 6 -> "6" [] OTHER -> "?"

IntegerUnserialize(raw) ==
    CASE raw.type = "int" -> raw
      [] raw.type = "str" /\ IsNumeral(raw.s) -> PyInt(ParseInt(raw.s))
      [] OTHER -> NotUnserializable

UnicodeUnserialize(raw) ==
    CASE raw.type = "str" -> raw
      [] raw.type = "int" -> PyStr(FormatInt(raw.n))
      [] OTHER -> NotUnserializable

Unserialize(schema, raw) ==
    IF raw = Unspecified THEN Unspecified
    ELSE IF schema = "Integer" THEN IntegerUnserialize(raw)
    ELSE UnicodeUnserialize(raw)

\* schema(raw): a fresh element holding raw and its coerced value.
NewElement(schema, raw) ==
    [raw_value |-> raw, value |-> Unserialize(schema, raw),
     is_valid |-> "None", errors |-> <<>>]

(* ------------------------------- inputs -------------------------------- *)
RawKeys == {PyStr("a"), PyStr("1"), PyInt(1)}
RawValues == {PyInt(1), PyStr("2"), PyStr("x")}
RawPairs == {<<k, v>> : k \in RawKeys, v \in RawValues}

RECURSIVE SeqsUpTo(_, _)
SeqsUpTo(S, n) ==
    IF n = 0 THEN {<<>>}
    ELSE LET shorter == SeqsUpTo(S, n - 1)
         IN  shorter \cup {Append(q, x) : q \in {p \in shorter : Len(p) = n - 1}, x \in S}

UniqueKeys(items) ==
    \A i, j \in DOMAIN items : items[i][1] = items[j][1] => i = j

RawPairSeqs == SeqsUpTo(RawPairs, MaxRawLen)
RawMappings == {PyDict(q) : q \in {p \in RawPairSeqs : UniqueKeys(p)}}

(* ------------------------- the native backing -------------------------- *)
\* dict / collections.OrderedDict: [k |-> raw key, key, value, bare] in
\* insertion order.  An entry stored by the mapping classes holds a pair
\* holder (key element, value element); bare marks an entry stored by the
\* native dict itself, whose stored object is the plain Python value.
IndexOf(d, k) ==
    IF \E i \in DOMAIN d : d[i].k = k
    THEN CHOOSE i \in DOMAIN d : d[i].k = k
    ELSE 0

Contains(d, k) == IndexOf(d, k) # 0

RemoveAt(d, i) == SubSeq(d, 1, i - 1) \o SubSeq(d, i + 1, Len(d))

NativeSetItem(d, k, entry) ==
    IF Contains(d, k)
    THEN [d EXCEPT ![IndexOf(d, k)] = entry]
    ELSE Append(d, entry)

NativeDelItem(d, k) == RemoveAt(d, IndexOf(d, k))

(* -------------------------------- state -------------------------------- *)
VARIABLES
    cls,            \* "Dict" or "OrderedDict"
    member_schema,  \* <<key schema, value schema>>, fixed by of()
    validators,     \* the validators attached to the mapping itself
    raw_slot,       \* the attribute the element keeps its raw value in:
                    \* "raw_value" itself, or "_raw_value" behind a property
    raw_value,      \* the raw value recorded by set()
    data,           \* the entries of the native backing, in order
    is_valid,       \* "None" until validate() runs, then "True" / "False"
    errors,         \* the mapping's own messages
    ret,            \* the last call: its name, arguments and outcome
    u_raw,          \* unserialize(): the raw input
    u_res,          \* unserialize(): the outcome
    element,        \* a scalar element handed to a validator
    v_res           \* the last validator call on element

mvars == <<cls, member_schema, validators, raw_slot, raw_value, data, is_valid,
          errors, ret>>
uvars == <<u_raw, u_res>>
vars == <<cls, member_schema, validators, raw_slot, raw_value, data, is_valid,
         errors, ret, u_raw, u_res, element, v_res>>

NoElement == NewElement("Integer", Unspecified)

(* ------------------------------ validators ----------------------------- *)
is_unusable(e) == e.value = Unspecified \/ e.value = NotUnserializable

note_error(e, message) == [e EXCEPT !.errors = Append(@, message)]

Invalid(e, message) == [result |-> FALSE, element |-> note_error(e, message)]
Valid(e) == [result |-> TRUE, element |-> e]

PresentValidate(e) ==
    IF e.value = Unspecified THEN Invalid(e, "May not be blank.") ELSE Valid(e)

ConvertedValidate(e) ==
    IF is_unusable(e) THEN Invalid(e, "Not a valid value.") ELSE Valid(e)

\* len(value) of a text or of a mapping
PyLen(v) == IF v.type = "str" THEN Len(v.s) ELSE Len(v.items)

ShorterThanMessage(upperbound) ==
    "Must be shorter than " \o FormatInt(upperbound) \o "."
LongerThanMessage(lowerbound) ==
    "Must be longer than " \o FormatInt(lowerbound) \o "."
LengthWithinRangeMessage(start, end) ==
    "Must be longer than " \o FormatInt(start) \o " and shorter than "
        \o FormatInt(end) \o "."
LessThanMessage(upperbound) ==
    "Must be less than " \o FormatInt(upperbound) \o "."
GreaterThanMessage(lowerbound) ==
    "Must be greater than " \o FormatInt(lowerbound) \o "."
WithinRangeMessage(start, end) ==
    "Must be greater than " \o FormatInt(start) \o " and shorter than "
        \o FormatInt(end) \o "."

\* a slip: the bound itself is let through
ShorterThanInclusive(e, upperbound) ==
    IF is_unusable(e) \/ PyLen(e.value) > upperbound
    THEN [result |-> FALSE,
          element |-> [e EXCEPT !.errors = Append(@, ShorterThanMessage(upperbound))]]
    ELSE [result |-> TRUE, element |-> e]

ShorterThanValidate(e, upperbound) ==
    IF is_unusable(e) \/ PyLen(e.value) >= upperbound
    THEN Invalid(e, ShorterThanMessage(upperbound))
    ELSE Valid(e)

LongerThanValidate(e, lowerbound) ==
    IF is_unusable(e) \/ PyLen(e.value) <= lowerbound
    THEN Invalid(e, LongerThanMessage(lowerbound))
    ELSE Valid(e)

LengthWithinRangeValidate(e, start, end) ==
    IF ~is_unusable(e) /\ start < PyLen(e.value) /\ PyLen(e.value) < end
    THEN Valid(e)
    ELSE Invalid(e, LengthWithinRangeMessage(start, end))

LessThanValidate(e, upperbound) ==
    IF is_unusable(e) \/ e.value.n >= upperbound
    THEN Invalid(e, LessThanMessage(upperbound))
    ELSE Valid(e)

GreaterThanValidate(e, lowerbound) ==
    IF is_unusable(e) \/ e.value.n <= lowerbound
    THEN Invalid(e, GreaterThanMessage(lowerbound))
    ELSE Valid(e)

WithinRangeValidate(e, start, end) ==
    IF ~is_unusable(e) /\ start < e.value.n /\ e.value.n < end
    THEN Valid(e)
    ELSE Invalid(e, WithinRangeMessage(start, end))

\* bool(value)
PyTruth(v) ==
    CASE v.type = "int" -> v.n # 0
      [] v.type = "str" -> v.s # ""
      [] OTHER -> v.items # <<>>

\* a slip: the guard refuses an unusable value without a message
IsTrueSilent(e) ==
    IF is_unusable(e) THEN [result |-> FALSE, element |-> e]
    ELSE IF ~PyTruth(e.value) THEN Invalid(e, "Must be true.")
    ELSE Valid(e)

IsTrueValidate(e) ==
    IF is_unusable(e) \/ ~PyTruth(e.value) THEN Invalid(e, "Must be true.")
    ELSE Valid(e)

IsFalseValidate(e) ==
    IF is_unusable(e) \/ PyTruth(e.value) THEN Invalid(e, "Must be false.")
    ELSE Valid(e)

\* re.compile(regex).match(value): the regex matches a prefix of the value.
\* The regex is a run of the letter "a"; the value is one too, or the URL.
RegexMatch(regex, v) ==
    regex = "" \/ (v.s # "http://a" /\ Len(regex) <= Len(v.s))

MatchesRegexValidate(e, regex) ==
    IF ~is_unusable(e) /\ RegexMatch(regex, e.value) THEN Valid(e)
    ELSE Invalid(e, "Must be a valid value.")

\* urlparse(value): scheme and netloc, for the texts the model hands in
UrlParse(v) ==
    IF v.s = "http://a" THEN [scheme |-> "http", netloc |-> "a"]
    ELSE [scheme |-> "", netloc |-> ""]

IsURLValidate(e) ==
    IF ~is_unusable(e) /\ UrlParse(e.value).scheme # "" /\ UrlParse(e.value).netloc # ""
    THEN Valid(e)
    ELSE Invalid(e, "Must be a URL.")

\* value in options; there is no is_unusable guard
ContainedInValidate(e, options) ==
    IF e.value \notin options THEN Invalid(e, "Not a valid value.") ELSE Valid(e)

\* value[key] of a mapping value
PyGetItem(v, key) ==
    LET i == CHOOSE i \in DOMAIN v.items : v.items[i][1] = key
    IN  v.items[i][2]

EqualMessage(a, b) == a[1] \o " and " \o b[1] \o " must be equal."

\* a and b are <<label, key>>
ItemsEqualValidate(e, a, b) ==
    IF ~is_unusable(e) /\ PyGetItem(e.value, a[2]) = PyGetItem(e.value, b[2])
    THEN Valid(e)
    ELSE Invalid(e, EqualMessage(a, b))

\* getattr(element, name): the child element of that name, which holds the
\* item of that name
GetAttr(e, name) == NewElement("Integer", PyGetItem(e.value, PyStr(name)))

\* a and b are <<label, attribute name>>
AttributesEqualValidate(e, a, b) ==
    IF ~is_unusable(e) /\ GetAttr(e, a[2]).value = GetAttr(e, b[2]).value
    THEN Valid(e)
    ELSE Invalid(e, EqualMessage(a, b))

\* "@" in value, value.split("@", 1)[1] and "." in host, for the texts the
\* model hands in
HasAt(v) == v.s \in {"a@b", "a@b.c"}
Host(v) == IF v.s = "a@b.c" THEN "b.c" ELSE "b"
HasDot(host) == host = "b.c"

ProbablyAnEmailAddressValidate(e) ==
    IF ~is_unusable(e) /\ HasAt(e.value) /\ HasDot(Host(e.value))
    THEN Valid(e)
    ELSE Invalid(e, "Must be a valid e-mail address.")

\* Element.validate of a member element declared validated_by([Converted()]).
ElementValidate(e) ==
    LET r == ConvertedValidate(e)
    IN  [result |-> r.result,
         element |-> [r.element EXCEPT !.is_valid = IF r.result THEN "True" ELSE "False"]]

(* ------------------------------- Mapping ------------------------------- *)
\* super().__getitem__(key).value: a stored object that is no pair holder
\* has no attribute "value".
GetItem(d, k) ==
    IF ~Contains(d, k)
    THEN [kind |-> "raise", exc |-> "KeyError", elem |-> NoElement]
    ELSE IF d[IndexOf(d, k)].bare
    THEN [kind |-> "raise", exc |-> "AttributeError", elem |-> NoElement]
    ELSE [kind |-> "return", exc |-> "", elem |-> d[IndexOf(d, k)].value]

\* __iter__: a generator over the backing's order that reads the attribute
\* "key" of each stored object.  keys are the key elements it yields; at the
\* first stored object that is no pair holder it raises AttributeError,
\* after yielding the keys before it.
Yielded(d) ==
    CHOOSE n \in 0..Len(d) : /\ \A i \in 1..n : ~d[i].bare
                             /\ n = Len(d) \/ d[n + 1].bare

IterUpTo(d, n) ==
    [keys |-> [i \in 1..n |-> d[i].key],
     kind |-> IF n = Len(d) THEN "return" ELSE "raise",
     exc |-> IF n = Len(d) THEN "" ELSE "AttributeError"]

Iter(d) == IterUpTo(d, Yielded(d))

\* items(): the i-th pair is (key, self[key.value]); the lookup runs when
\* the consumer asks for the i-th pair, and asking for a pair past the
\* yielded keys meets the generator's raise.
Pair(d, it, i) ==
    IF i > Len(it.keys)
    THEN [key |-> NoElement,
          got |-> [kind |-> "raise", exc |-> it.exc, elem |-> NoElement]]
    ELSE [key |-> it.keys[i], got |-> GetItem(d, it.keys[i].value)]

ItemAt(d, i) == Pair(d, Iter(d), i)

\* result[k] = v on a plain dict of <<k, v>> pairs
PlainSetItem(items, k, v) ==
    IF \E i \in DOMAIN items : items[i][1] = k
    THEN [items EXCEPT ![CHOOSE i \in DOMAIN items : items[i][1] = k] = <<k, v>>]
    ELSE Append(items, <<k, v>>)

RECURSIVE ValueLoop(_, _, _)
ValueLoop(d, i, result) ==
    IF i > Len(d) THEN Return(PyDict(result))
    ELSE LET item == ItemAt(d, i)
         IN  IF item.got.kind = "raise" THEN Raise(item.got.exc)
             ELSE IF item.key.value = NotUnserializable
                     \/ item.got.elem.value = NotUnserializable
             THEN Return(NotUnserializable)
             ELSE ValueLoop(d, i + 1,
                            PlainSetItem(result, item.key.value, item.got.elem.value))

DictValue(raw, d) ==
    IF raw = NoRawValue THEN Raise("AttributeError")
    ELSE IF raw.type # "dict"
    THEN IF raw = Unspecified THEN Return(Unspecified) ELSE Return(NotUnserializable)
    ELSE ValueLoop(d, 1, <<>>)

OrderedDictValue(raw, d) ==
    IF raw = NoRawValue THEN Raise("AttributeError")
    ELSE IF raw.type # "dict"
    THEN IF raw = Unspecified THEN Return(Unspecified) ELSE Return(NotUnserializable)
    ELSE ValueLoop(d, 1, <<>>)

\* the value property of the mapping in its current state
Value == IF cls = "Dict" THEN DictValue(raw_value, data)
         ELSE OrderedDictValue(raw_value, data)

PyAnd(a, b) == IF a = "True" /\ b THEN "True" ELSE "False"

\* the loop of Mapping.validate: stops where items() raises
RECURSIVE ValidateLoop(_, _, _)
ValidateLoop(d, i, valid) ==
    IF i > Len(d) THEN [kind |-> "return", exc |-> "", data |-> d, valid |-> valid]
    ELSE LET item == ItemAt(d, i)
         IN  IF item.got.kind = "raise"
             THEN [kind |-> "raise", exc |-> item.got.exc, data |-> d, valid |-> valid]
             ELSE LET j == IndexOf(d, item.key.value)
                      kres == ElementValidate(d[i].key)
                      d1 == [d EXCEPT ![i].key = kres.element]
                      vres == ElementValidate(d1[j].value)
                      d2 == [d1 EXCEPT ![j].value = vres.element]
                  IN  ValidateLoop(d2, i + 1,
                                   PyAnd(PyAnd(valid, kres.result), vres.result))

\* Element.validate of the mapping itself: every attached validator is
\* called with the mapping, whose value and errors it reads and extends.
RunValidator(name, e) ==
    IF name = "Present" THEN PresentValidate(e) ELSE ConvertedValidate(e)

RECURSIVE OwnValidate(_, _)
OwnValidate(vs, e) ==
    IF vs = <<>> THEN [result |-> TRUE, element |-> e]
    ELSE LET first == RunValidator(Head(vs), e)
             rest == OwnValidate(Tail(vs), first.element)
         IN  [result |-> first.result /\ rest.result, element |-> rest.element]

MappingValidate(raw, d, errs) ==
    LET loop == ValidateLoop(d, 1, "True")
    IN  IF loop.kind = "raise"
        THEN [kind |-> "raise", exc |-> loop.exc, data |-> loop.data,
              is_valid |-> loop.valid, errors |-> errs]
        ELSE LET val == IF cls = "Dict" THEN DictValue(raw, loop.data)
                        ELSE OrderedDictValue(raw, loop.data)
             IN
             IF val.kind = "raise"
             THEN [kind |-> "raise", exc |-> val.exc, data |-> loop.data,
                   is_valid |-> loop.valid, errors |-> errs]
             ELSE
             LET self == [raw_value |-> raw, value |-> val.val,
                          is_valid |-> loop.valid, errors |-> errs]
                 own == OwnValidate(validators, self)
             IN  [kind |-> "return", exc |-> "", data |-> loop.data,
                  is_valid |-> PyAnd(loop.valid, own.result),
                  errors |-> own.element.errors]

\* Element.traverse of a scalar: the element itself under the given path
Leaf(path, e) == [path |-> path, element |-> e]

RECURSIVE TraverseLoop(_, _, _, _)
TraverseLoop(d, i, prefix, leaves) ==
    IF i > Len(d) THEN [kind |-> "return", exc |-> "", leaves |-> leaves]
    ELSE LET item == ItemAt(d, i)
             current_prefix == IF prefix.given THEN prefix.path \o <<i - 1>>
                               ELSE <<i - 1>>
         IN  IF item.got.kind = "raise"
             THEN [kind |-> "raise", exc |-> item.got.exc, leaves |-> leaves]
             ELSE TraverseLoop(d, i + 1, prefix,
                      leaves \o <<Leaf(current_prefix \o <<0>>, item.key),
                                  Leaf(current_prefix \o <<1>>, item.got.elem)>>)

Traverse(d, prefix) == TraverseLoop(d, 1, prefix, <<>>)

NoPrefix == [given |-> FALSE, path |-> <<>>]
Prefix(path) == [given |-> TRUE, path |-> path]

(* ---------------------------- MutableMapping --------------------------- *)
Entry(k, v) ==
    [k |-> k, key |-> NewElement(member_schema[1], k),
     value |-> NewElement(member_schema[2], v), bare |-> FALSE]

\* a slip: assignment written as removal followed by insertion
SetItemReinserts(d, k, v) ==
    Append(IF Contains(d, k) THEN NativeDelItem(d, k) ELSE d, Entry(k, v))

SetItem(d, k, v) == NativeSetItem(d, k, Entry(k, v))

Done(d, elem, kelem) ==
    [kind |-> "return", exc |-> "", data |-> d, elem |-> elem, kelem |-> kelem]
Fail(e, d) ==
    [kind |-> "raise", exc |-> e, data |-> d, elem |-> NoElement, kelem |-> NoElement]

DelItem(d, k) ==
    IF Contains(d, k) THEN Done(NativeDelItem(d, k), NoElement, NoElement)
    ELSE Fail("KeyError", d)

\* only KeyError is caught
SetDefault(d, k, default) ==
    LET got == GetItem(d, k)
    IN  IF got.kind = "return" THEN Done(d, got.elem, NoElement)
        ELSE IF got.exc # "KeyError" THEN Fail(got.exc, d)
        ELSE LET d1 == SetItem(d, k, default)
             IN  Done(d1, GetItem(d1, k).elem, NoElement)

\* dict.popitem(): the entry added last; it is gone before v.key is read
MutableMappingPopitem(d) ==
    IF d = <<>> THEN Fail("KeyError", d)
    ELSE IF d[Len(d)].bare THEN Fail("AttributeError", RemoveAt(d, Len(d)))
    ELSE Done(RemoveAt(d, Len(d)), d[Len(d)].value, d[Len(d)].key)

\* super().pop(key) has removed the entry before .value is read
MutableMappingPop(d, key, args) ==
    IF Len(args) > 1 THEN Fail("TypeError", d)
    ELSE IF Contains(d, key) /\ d[IndexOf(d, key)].bare
    THEN Fail("AttributeError", NativeDelItem(d, key))
    ELSE IF Contains(d, key)
    THEN Done(NativeDelItem(d, key), d[IndexOf(d, key)].value, NoElement)
    ELSE IF args # <<>>
    THEN Done(d, NewElement(member_schema[2], args[1]), NoElement)
    ELSE Fail("KeyError", d)

\* the pairs update() assigns, in order: the positional source, then kwargs
SourcePairs(src) ==
    IF src.type = "dict"
    THEN [i \in DOMAIN src.items |->
            <<src.items[i][1],
              src.items[CHOOSE j \in DOMAIN src.items :
                            src.items[j][1] = src.items[i][1]][2]>>]
    ELSE src.items

RECURSIVE Assign(_, _)
Assign(d, pairs) ==
    IF pairs = <<>> THEN d
    ELSE Assign(SetItem(d, Head(pairs)[1], Head(pairs)[2]), Tail(pairs))

RECURSIVE AssignAll(_, _)
AssignAll(d, mappings) ==
    IF mappings = <<>> THEN d
    ELSE AssignAll(Assign(d, Head(mappings)), Tail(mappings))

\* a slip: the named overrides are assigned before the positional source
UpdateOverridesFirst(d, args, kwargs) ==
    IF Len(args) > 1
    THEN [kind |-> "raise", exc |-> "TypeError", data |-> d,
          elem |-> NoElement, kelem |-> NoElement]
    ELSE [kind |-> "return", exc |-> "",
          data |-> AssignAll(d, <<kwargs>> \o (IF args # <<>> THEN <<SourcePairs(args[1])>>
                                                ELSE <<>>)),
          elem |-> NoElement, kelem |-> NoElement]

Update(d, args, kwargs) ==
    IF Len(args) > 1 THEN Fail("TypeError", d)
    ELSE LET mappings == (IF args # <<>> THEN <<SourcePairs(args[1])>> ELSE <<>>)
                         \o <<kwargs>>
         IN  Done(AssignAll(d, mappings), NoElement, NoElement)

(* -------------------------- Dict / OrderedDict ------------------------- *)
\* what the native dict stores for other's pair (k, v): v itself
BareEntry(k, v) ==
    [k |-> k, key |-> NoElement,
     value |-> [NoElement EXCEPT !.raw_value = v, !.value = v], bare |-> TRUE]

RECURSIVE NativeUpdate(_, _)
NativeUpdate(d, pairs) ==
    IF pairs = <<>> THEN d
    ELSE NativeUpdate(NativeSetItem(d, Head(pairs)[1],
                                    BareEntry(Head(pairs)[1], Head(pairs)[2])),
                      Tail(pairs))

\* mapping |= other.  Dict inherits dict.__ior__, which fills the native
\* table without calling __setitem__; collections.OrderedDict.__ior__
\* assigns each pair through __setitem__.
Ior(d, other) ==
    IF other.type = "int" THEN Fail("TypeError", d)
    ELSE IF cls = "Dict"
    THEN Done(NativeUpdate(d, SourcePairs(other)), NoElement, NoElement)
    ELSE Done(Assign(d, SourcePairs(other)), NoElement, NoElement)

\* dict(pairs): a later pair with an equal key replaces the value in place
RECURSIVE FromPairs(_, _)
FromPairs(items, acc) ==
    IF items = <<>> THEN acc
    ELSE FromPairs(Tail(items), PlainSetItem(acc, Head(items)[1], Head(items)[2]))

\* dict(raw_value) of the interpreter: TypeError for a non-iterable,
\* ValueError for an element that is a sequence of the wrong length.
NativeDict(raw) ==
    CASE raw.type = "dict" -> Return(PyDict(raw.items))
      [] raw.type = "list" ->
            IF \E i \in DOMAIN raw.items : Len(raw.items[i]) # 2
            THEN Raise("ValueError")
            ELSE Return(PyDict(FromPairs(raw.items, <<>>)))
      [] raw.type = "str" ->
            IF raw.s = "" THEN Return(PyDict(<<>>)) ELSE Raise("ValueError")
      [] OTHER -> Raise("TypeError")

DictUnserialize(raw) ==
    LET r == NativeDict(raw)
    IN  IF r.kind = "raise" /\ r.exc = "TypeError" THEN Return(NotUnserializable) ELSE r

OrderedDictUnserialize(raw) ==
    LET r == NativeDict(raw)
    IN  IF r.kind = "raise" /\ r.exc = "TypeError" THEN Return(NotUnserializable) ELSE r

UnserializeOf(c, raw) ==
    IF c = "Dict" THEN DictUnserialize(raw) ELSE OrderedDictUnserialize(raw)

\* Dict.set and OrderedDict.set: record, clear, unserialize, update
\* the outcome of set(): that of the call, and the raw value left recorded
Recorded(r, raw) ==
    [kind |-> r.kind, exc |-> r.exc, data |-> r.data, elem |-> r.elem,
     kelem |-> r.kelem, raw_value |-> raw]

MappingSet(raw) ==
    IF raw = Unspecified THEN Recorded(Done(<<>>, NoElement, NoElement), raw)
    ELSE LET unserialized == UnserializeOf(cls, raw)
         IN  IF unserialized.kind = "raise"
             THEN Recorded(Fail(unserialized.exc, <<>>), raw)
             ELSE IF unserialized.val = NotUnserializable
             THEN Recorded(Done(<<>>, NoElement, NoElement), raw)
             ELSE LET has_raw_value == raw_slot = "_raw_value"
                      left == IF has_raw_value THEN NoRawValue ELSE raw
                  IN  Recorded(Update(<<>>, <<unserialized.val>>, <<>>), left)

OrderedDictPop(d, key, args) ==
    IF Contains(d, key)
    THEN Done(NativeDelItem(d, key), GetItem(d, key).elem, NoElement)
    ELSE IF args = <<>> THEN Fail("KeyError", d)
    ELSE Done(d, NewElement(member_schema[2], args[1]), NoElement)

\* __reversed__: as __iter__, from the entry added last
Reversed(d) == Iter([i \in DOMAIN d |-> d[Len(d) + 1 - i]])

\* next(reversed(self) if last else iter(self)), then self.pop(key.value)
OrderedDictPopitem(d, last) ==
    IF d = <<>> THEN Fail("KeyError", d)
    ELSE LET it == IF last THEN Reversed(d) ELSE Iter(d)
         IN  IF it.keys = <<>> THEN Fail(it.exc, d)
             ELSE LET key == it.keys[1]
                      popped == OrderedDictPop(d, key.value, <<>>)
                  IN  IF popped.kind = "raise" THEN popped
                      ELSE Done(popped.data, popped.elem, key)

\* dict.clear() / collections.OrderedDict.clear(), as inherited
Clear(d) == Done(<<>>, NoElement, NoElement)

\* collections.OrderedDict.move_to_end(key, last), as inherited: the native
\* key is looked up as given
MoveToEnd(d, key, last) ==
    IF ~Contains(d, key) THEN Fail("KeyError", d)
    ELSE LET entry == d[IndexOf(d, key)]
             rest == NativeDelItem(d, key)
         IN  Done(IF last THEN Append(rest, entry) ELSE <<entry>> \o rest,
                  NoElement, NoElement)

(* ------------------------------- actions ------------------------------- *)
Call(op, args, kwargs, last, r, flag) ==
    [op |-> op, args |-> args, kwargs |-> kwargs, last |-> last,
     kind |-> r.kind, exc |-> r.exc, elem |-> r.elem, kelem |-> r.kelem,
     flag |-> flag]

Constructed ==
    Call("__init__", <<>>, <<>>, TRUE, Done(<<>>, NoElement, NoElement), "None")

ErrorsBounded(d, errs) ==
    /\ Len(errs) <= MaxErrors
    /\ \A i \in DOMAIN d : /\ Len(d[i].key.errors) <= MaxErrors
                           /\ Len(d[i].value.errors) <= MaxErrors

Frame ==
    UNCHANGED <<cls, member_schema, validators, raw_slot, u_raw, u_res, element, v_res>>

\* mapping[k] = v
SetItemStep(K, V) ==
    \E k \in K, v \in V :
        LET d1 == SetItem(data, k, v)
        IN  /\ Len(d1) <= MaxEntries
            /\ data' = d1
            /\ ret' = Call("__setitem__", <<k, v>>, <<>>, TRUE,
                           Done(d1, NoElement, NoElement), "None")
            /\ UNCHANGED <<raw_value, is_valid, errors>>
            /\ Frame

\* del mapping[k]
DelItemStep(K) ==
    \E k \in K :
        LET r == DelItem(data, k)
        IN  /\ data' = r.data
            /\ ret' = Call("__delitem__", <<k>>, <<>>, TRUE, r, "None")
            /\ UNCHANGED <<raw_value, is_valid, errors>>
            /\ Frame

\* mapping.setdefault(k, v)
SetDefaultStep(K, V) ==
    \E k \in K, v \in V :
        LET r == SetDefault(data, k, v)
        IN  /\ Len(r.data) <= MaxEntries
            /\ data' = r.data
            /\ ret' = Call("setdefault", <<k, v>>, <<>>, TRUE, r, "None")
            /\ UNCHANGED <<raw_value, is_valid, errors>>
            /\ Frame

\* mapping.pop(k), mapping.pop(k, fallback), and on a Dict the call with
\* one argument too many
PopStep(K, A) ==
    \E k \in K, args \in A :
        /\ Len(args) > 1 => cls = "Dict"
        /\ LET r == IF cls = "Dict" THEN MutableMappingPop(data, k, args)
                    ELSE OrderedDictPop(data, k, args)
           IN  /\ data' = r.data
               /\ ret' = Call("pop", <<k>> \o args, <<>>, TRUE, r, "None")
        /\ UNCHANGED <<raw_value, is_valid, errors>>
        /\ Frame

\* mapping.popitem(); on an OrderedDict popitem(last)
PopitemStep ==
    \E last \in BOOLEAN :
        /\ cls = "Dict" => last
        /\ LET r == IF cls = "Dict" THEN MutableMappingPopitem(data)
                    ELSE OrderedDictPopitem(data, last)
           IN  /\ data' = r.data
               /\ ret' = Call("popitem", <<>>, <<>>, last, r, "None")
        /\ UNCHANGED <<raw_value, is_valid, errors>>
        /\ Frame

\* mapping.clear()
ClearStep ==
    LET r == Clear(data)
    IN  /\ data' = r.data
        /\ ret' = Call("clear", <<>>, <<>>, TRUE, r, "None")
        /\ UNCHANGED <<raw_value, is_valid, errors>>
        /\ Frame

\* ordered.move_to_end(k, last)
MoveToEndStep(K) ==
    \E k \in K, last \in BOOLEAN :
        /\ cls = "OrderedDict"
        /\ LET r == MoveToEnd(data, k, last)
           IN  /\ data' = r.data
               /\ ret' = Call("move_to_end", <<k>>, <<>>, last, r, "None")
        /\ UNCHANGED <<raw_value, is_valid, errors>>
        /\ Frame

\* mapping.update(*args, **kwargs)
IorStep(S) ==
    \E other \in S :
        LET r == Ior(data, other)
        IN  /\ Len(r.data) <= MaxEntries
            /\ data' = r.data
            /\ ret' = Call("__ior__", <<other>>, <<>>, TRUE, r, "None")
            /\ UNCHANGED <<raw_value, is_valid, errors>>
            /\ Frame

UpdateStep(S, O) ==
    \E args \in {<<>>} \cup {<<src>> : src \in S} \cup {<<PyDict(<<>>), PyDict(<<>>)>>},
       kwargs \in O :
        LET r == Update(data, args, kwargs)
        IN  /\ Len(r.data) <= MaxEntries
            /\ data' = r.data
            /\ ret' = Call("update", args, kwargs, TRUE, r, "None")
            /\ UNCHANGED <<raw_value, is_valid, errors>>
            /\ Frame

\* a slip: set() forgets the outcome of the last validate()
SetStepResets(R) ==
    \E raw \in R :
        LET r == MappingSet(raw)
        IN  /\ raw_value' = r.raw_value
            /\ data' = r.data
            /\ ret' = Call("set", <<>>, <<>>, TRUE, r, "None")
            /\ is_valid' = "None"
            /\ UNCHANGED errors
            /\ Frame

\* mapping.set(raw)
SetStep(R) ==
    \E raw \in R :
        LET r == MappingSet(raw)
        IN  /\ raw_value' = r.raw_value
            /\ data' = r.data
            /\ ret' = Call("set", <<>>, <<>>, TRUE, r, "None")
            /\ UNCHANGED <<is_valid, errors>>
            /\ Frame

\* mapping.validate()
ValidateStep ==
    LET r == MappingValidate(raw_value, data, errors)
    IN  /\ ErrorsBounded(r.data, r.errors)
        /\ data' = r.data
        /\ is_valid' = r.is_valid
        /\ errors' = r.errors
        /\ ret' = Call("validate", <<>>, <<>>, TRUE,
                       [kind |-> r.kind, exc |-> r.exc, elem |-> NoElement,
                        kelem |-> NoElement],
                       IF r.kind = "return" THEN r.is_valid ELSE "None")
        /\ UNCHANGED raw_value
        /\ Frame

Pending == [kind |-> "pending", exc |-> "", val |-> PyNone]
NoCall == [validator |-> "", lo |-> 0, hi |-> 0, result |-> FALSE, noted |-> 0]

InitMapping ==
    /\ cls \in {"Dict", "OrderedDict"}
    /\ member_schema \in {<<"Unicode", "Integer">>, <<"Integer", "Integer">>}
    /\ validators = <<"Present">>
    /\ raw_slot \in {"raw_value", "_raw_value"}
    /\ raw_value = Unspecified
    /\ data = <<>>
    /\ is_valid = "None"
    /\ errors = <<>>
    /\ ret = Constructed

NoUnserialize == u_raw = Unspecified /\ u_res = Pending

NoValidator == element = NoElement /\ v_res = NoCall

Init == InitMapping /\ NoUnserialize /\ NoValidator

\* a mapping declared of(Integer, Integer)
InitInteger ==
    /\ Init
    /\ member_schema = <<"Integer", "Integer">>

(* ------------------- set(raw): coercion and projection ----------------- *)
\* what set() is given: nothing, a non-iterable, a plain string, a mapping
RawInputs == {Unspecified, PyInt(5), PyStr("ab")} \cup RawMappings

DoSet == SetStep(RawInputs)

NextSet == DoSet

SpecSet == Init /\ [][NextSet]_vars

(* ------------------------- entry by entry changes ---------------------- *)
Defaults == {PyInt(1), PyStr("x")}
PopArgs == {<<>>} \cup {<<v>> : v \in Defaults} \cup {<<PyInt(1), PyInt(1)>>}

DoSetItem == SetItemStep(RawKeys, RawValues)
DoDelItem == DelItemStep(RawKeys)
DoSetDefault == SetDefaultStep(RawKeys, RawValues)
DoPop == PopStep(RawKeys, PopArgs)
DoPopitem == PopitemStep
DoClear == ClearStep
DoMoveToEnd == MoveToEndStep(RawKeys)
DoInplaceOr == IorStep({PyDict(<<<<PyInt(1), PyInt(1)>>>>),
                        PyDict(<<<<PyStr("1"), PyStr("x")>>>>)})

NextMut ==
    \/ DoSetItem
    \/ DoDelItem
    \/ DoSetDefault
    \/ DoPop
    \/ DoPopitem
    \/ DoClear
    \/ DoMoveToEnd
    \/ DoInplaceOr

\* none of these operations reads or records the raw value
InitMut == Init /\ raw_slot = "raw_value"

SpecMut == InitMut /\ [][NextMut]_vars

\* the same operations on an OrderedDict
InitOrdered == InitMut /\ cls = "OrderedDict"

SpecOrdered == InitOrdered /\ [][NextMut]_vars

(* -------------------------------- update ------------------------------- *)
MaxOverrides == 1

\* the pairs update() is given: two raw keys with the same coerced form, one
\* of them with two values
UpdatePairs ==
    {<<PyStr("1"), PyInt(1)>>, <<PyStr("1"), PyStr("2")>>, <<PyInt(1), PyInt(1)>>}
UpdateKeys == {p[1] : p \in UpdatePairs}
UpdatePairSeqs == SeqsUpTo(UpdatePairs, MaxRawLen)

\* the positional source of update(): a mapping or an iterable of pairs
Sources == {PyDict(q) : q \in {p \in UpdatePairSeqs : UniqueKeys(p)}}
           \cup {PyList(q) : q \in UpdatePairSeqs}

\* the named overrides of update(): their keys are strings
Overrides ==
    {q \in SeqsUpTo({p \in UpdatePairs : p[1].type = "str"}, MaxOverrides) :
        UniqueKeys(q)}

DoUpdate == UpdateStep(Sources, Overrides)
DoDelete == DelItemStep(UpdateKeys)
DoIor == IorStep({PyDict(<<p>>) : p \in UpdatePairs} \cup {PyInt(5)})

NextUpdate ==
    \/ DoUpdate
    \/ DoDelete
    \/ DoIor

\* update() neither reads nor records the raw value
InitUpdate == InitInteger /\ raw_slot = "raw_value"

SpecUpdate == InitUpdate /\ [][NextUpdate]_vars

(* ------------------------------ unserialize ---------------------------- *)
\* elements of an iterable: pairs, and sequences that are too short or too long
Tuples == {<<PyStr("a")>>, <<PyStr("a"), PyInt(1)>>, <<PyInt(1), PyStr("x")>>,
           <<PyStr("a"), PyInt(1), PyInt(1)>>}

UnserializeInputs ==
    RawMappings
    \cup {PyList(q) : q \in SeqsUpTo(Tuples, MaxRawLen)}
    \cup {PyInt(5), PyNone, PyStr(""), PyStr("a"), PyStr("ab")}

\* cls.unserialize(raw_value)
DoUnserialize ==
    /\ u_res' = UnserializeOf(cls, u_raw)
    /\ UNCHANGED <<u_raw, element, v_res>>
    /\ UNCHANGED mvars

\* the caller turns to another raw value
DoOffer ==
    /\ u_raw' \in UnserializeInputs
    /\ u_res' = Pending
    /\ UNCHANGED <<element, v_res>>
    /\ UNCHANGED mvars

NextUnserialize ==
    \/ DoUnserialize
    \/ DoOffer

InitUnserialize ==
    /\ InitMapping
    /\ NoValidator
    /\ u_raw \in UnserializeInputs
    /\ u_res = Pending

SpecUnserialize == InitUnserialize /\ [][NextUnserialize]_vars

(* ------------------------------- validate ------------------------------ *)
\* every operation of the mapping, on few raw keys and values: a key whose
\* coerced form is its raw form, one whose coerced form differs, a value
\* that coerces and one that does not
FewKeys == {PyInt(1), PyStr("1")}
FewValues == {PyInt(1), PyStr("x")}
FewMappings == {PyDict(<<>>), PyDict(<<<<PyStr("1"), PyStr("x")>>>>),
                PyDict(<<<<PyInt(1), PyInt(1)>>>>)}
FewInputs == {Unspecified, PyInt(5)} \cup FewMappings
FewOverrides == {<<>>, <<<<PyStr("1"), PyStr("x")>>>>}
FewSources == {PyDict(<<>>), PyDict(<<<<PyStr("1"), PyStr("x")>>>>),
               PyDict(<<<<PyInt(1), PyInt(1)>>>>)}
FewPopArgs == {<<>>, <<PyInt(1)>>}

Assign1 == SetItemStep(FewKeys, FewValues)
Delete1 == DelItemStep(FewKeys)
SetDefault1 == SetDefaultStep(FewKeys, {PyInt(1)})
Pop1 == PopStep(FewKeys, FewPopArgs)
Popitem1 == PopitemStep
Clear1 == ClearStep
MoveToEnd1 == MoveToEndStep(FewKeys)
Update1 == UpdateStep(FewSources, FewOverrides)
Ior1 == IorStep({PyDict(<<<<PyInt(1), PyInt(1)>>>>), PyInt(5)})
Set1 == SetStep(FewInputs)
Validate1 == ValidateStep

Next ==
    \/ Assign1
    \/ Delete1
    \/ SetDefault1
    \/ Pop1
    \/ Popitem1
    \/ Clear1
    \/ MoveToEnd1
    \/ Update1
    \/ Ior1
    \/ Set1
    \/ Validate1

Spec == InitInteger /\ [][Next]_vars

(* ------------- every operation, with a key that fails coercion --------- *)
\* of(Integer, Integer): the key 1 coerces, the key "a" does not; the value
\* 1 coerces, the value "x" does not; 5 does not unserialize.
CoercionKeys == {PyInt(1), PyStr("a")}
CoercionMappings == {PyDict(<<>>), PyDict(<<<<PyStr("a"), PyInt(1)>>>>),
                     PyDict(<<<<PyInt(1), PyStr("x")>>>>)}
CoercionInputs == {Unspecified, PyInt(5)} \cup CoercionMappings
CoercionOverrides == {<<>>, <<<<PyStr("a"), PyStr("x")>>>>}

Assign2 == SetItemStep(CoercionKeys, FewValues)
Delete2 == DelItemStep(CoercionKeys)
SetDefault2 == SetDefaultStep(CoercionKeys, {PyInt(1)})
Pop2 == PopStep(CoercionKeys, FewPopArgs)
Popitem2 == PopitemStep
Clear2 == ClearStep
MoveToEnd2 == MoveToEndStep(CoercionKeys)
Update2 == UpdateStep(CoercionMappings, CoercionOverrides)
Ior2 == IorStep({PyDict(<<<<PyStr("a"), PyInt(1)>>>>), PyInt(5)})
Set2 == SetStep(CoercionInputs)
Validate2 == ValidateStep

NextCoercion ==
    \/ Assign2
    \/ Delete2
    \/ SetDefault2
    \/ Pop2
    \/ Popitem2
    \/ Clear2
    \/ MoveToEnd2
    \/ Update2
    \/ Ior2
    \/ Set2
    \/ Validate2

SpecCoercion == InitInteger /\ [][NextCoercion]_vars

(* ------------------------- validators on an element -------------------- *)
RECURSIVE Text(_)
Text(n) == IF n = 0 THEN "" ELSE Text(n - 1) \o "a"

\* scalar elements: numbers and texts around the bounds, and the two
\* elements without a usable value
Elements ==
    {NewElement("Integer", PyInt(n)) : n \in 0..(MaxBound + 1)}
    \cup {NewElement("Unicode", PyStr(Text(n))) : n \in 0..(MaxBound + 1)}
    \cup {NewElement("Integer", Unspecified), NewElement("Integer", PyStr("x"))}

Bounds == 0..MaxBound
Ranges == {<<a, b>> \in Bounds \X Bounds : a <= b}

\* a length validator is attached to a sized value, a comparison to a number
Sized(e) == is_unusable(e) \/ e.value.type = "str"
Numeric(e) == is_unusable(e) \/ e.value.type = "int"

\* validator(element, context)
Called(name, lo, hi, r) ==
    /\ Len(r.element.errors) <= MaxErrors
    /\ element' = r.element
    /\ v_res' = [validator |-> name, lo |-> lo, hi |-> hi, result |-> r.result,
                 noted |-> Len(r.element.errors) - Len(element.errors)]
    /\ UNCHANGED mvars
    /\ UNCHANGED uvars

CallShorterThan ==
    \E u \in Bounds :
        Sized(element) /\ Called("ShorterThan", 0, u, ShorterThanValidate(element, u))

CallLongerThan ==
    \E l \in Bounds :
        Sized(element) /\ Called("LongerThan", l, 0, LongerThanValidate(element, l))

CallLengthWithinRange ==
    \E se \in Ranges :
        Sized(element)
        /\ Called("LengthWithinRange", se[1], se[2],
                  LengthWithinRangeValidate(element, se[1], se[2]))

CallLessThan ==
    \E u \in Bounds :
        Numeric(element) /\ Called("LessThan", 0, u, LessThanValidate(element, u))

CallGreaterThan ==
    \E l \in Bounds :
        Numeric(element) /\ Called("GreaterThan", l, 0, GreaterThanValidate(element, l))

CallWithinRange ==
    \E se \in Ranges :
        Numeric(element)
        /\ Called("WithinRange", se[1], se[2], WithinRangeValidate(element, se[1], se[2]))

NextValidators ==
    \/ CallShorterThan
    \/ CallLongerThan
    \/ CallLengthWithinRange
    \/ CallLessThan
    \/ CallGreaterThan
    \/ CallWithinRange

InitValidators ==
    /\ InitMapping
    /\ NoUnserialize
    /\ element \in Elements
    /\ v_res = NoCall

SpecValidators == InitValidators /\ [][NextValidators]_vars

(* --------------------- validators run one after another ---------------- *)
MaxNoted == 2

\* an element whose value is a mapping with the items "a" and "b"
PairElement(x, y) ==
    LET pair == PyDict(<<<<PyStr("a"), PyInt(x)>>, <<PyStr("b"), PyInt(y)>>>>)
    IN  [raw_value |-> pair, value |-> pair, is_valid |-> "None", errors |-> <<>>]

Keyed(e) == is_unusable(e) \/ e.value.type = "dict"

\* a number and a text that are false, a number and texts that are true,
\* and the two elements without a usable value
GuardElements ==
    {NewElement("Integer", PyInt(n)) : n \in {0, MaxBound}}
    \cup {NewElement("Unicode", PyStr(t)) :
             t \in {"", Text(MaxBound), "http://a", "a@b", "a@b.c"}}
    \cup {NewElement("Integer", Unspecified), NewElement("Integer", PyStr("x"))}
    \cup {PairElement(1, n) : n \in {0, 1}}

\* validator(element, context), on an element that keeps what earlier
\* validators noted
Ran(name, lo, hi, r) ==
    /\ Len(r.element.errors) <= MaxNoted
    /\ element' = r.element
    /\ v_res' = [validator |-> name, lo |-> lo, hi |-> hi, result |-> r.result,
                 noted |-> Len(r.element.errors) - Len(element.errors)]
    /\ UNCHANGED mvars
    /\ UNCHANGED uvars

RunConverted == Ran("Converted", 0, 0, ConvertedValidate(element))
RunIsTrue == Ran("IsTrue", 0, 0, IsTrueValidate(element))
RunIsFalse == Ran("IsFalse", 0, 0, IsFalseValidate(element))
RunShorterThan ==
    Sized(element) /\ Ran("ShorterThan", 0, MaxBound, ShorterThanValidate(element, MaxBound))
RunLongerThan ==
    Sized(element) /\ Ran("LongerThan", 1, 0, LongerThanValidate(element, 1))
RunLengthWithinRange ==
    Sized(element)
    /\ Ran("LengthWithinRange", 0, MaxBound, LengthWithinRangeValidate(element, 0, MaxBound))
RunLessThan ==
    Numeric(element) /\ Ran("LessThan", 0, MaxBound, LessThanValidate(element, MaxBound))
RunGreaterThan ==
    Numeric(element) /\ Ran("GreaterThan", 1, 0, GreaterThanValidate(element, 1))
RunWithinRange ==
    Numeric(element)
    /\ Ran("WithinRange", 0, MaxBound, WithinRangeValidate(element, 0, MaxBound))
RunMatchesRegex ==
    \E regex \in {"", "a"} :
        /\ Sized(element)
        /\ Ran("MatchesRegex", Len(regex), 0, MatchesRegexValidate(element, regex))
RunIsURL == Sized(element) /\ Ran("IsURL", 0, 0, IsURLValidate(element))
RunPresent == Ran("Present", 0, 0, PresentValidate(element))
RunContainedIn ==
    \E n \in {0, MaxBound} :
        Ran("ContainedIn", n, n, ContainedInValidate(element, {PyInt(n)}))
RunItemsEqual ==
    Keyed(element)
    /\ Ran("ItemsEqual", 0, 0,
           ItemsEqualValidate(element, <<"a", PyStr("a")>>, <<"b", PyStr("b")>>))
RunAttributesEqual ==
    Keyed(element)
    /\ Ran("AttributesEqual", 0, 0,
           AttributesEqualValidate(element, <<"a", "a">>, <<"b", "b">>))
RunProbablyAnEmailAddress ==
    Sized(element)
    /\ Ran("ProbablyAnEmailAddress", 0, 0, ProbablyAnEmailAddressValidate(element))

NextGuard ==
    \/ RunConverted
    \/ RunIsTrue
    \/ RunIsFalse
    \/ RunShorterThan
    \/ RunLongerThan
    \/ RunLengthWithinRange
    \/ RunLessThan
    \/ RunGreaterThan
    \/ RunWithinRange
    \/ RunMatchesRegex
    \/ RunIsURL
    \/ RunPresent
    \/ RunContainedIn
    \/ RunItemsEqual
    \/ RunAttributesEqual
    \/ RunProbablyAnEmailAddress

InitGuard ==
    /\ InitMapping
    /\ cls = "Dict"
    /\ member_schema = <<"Integer", "Integer">>
    /\ raw_slot = "raw_value"
    /\ NoUnserialize
    /\ element \in GuardElements
    /\ v_res = NoCall

SpecGuard == InitGuard /\ [][NextGuard]_vars

(* ================================ claims =============================== *)
Malformed(d) ==
    \E i \in DOMAIN d : \/ d[i].key.value = NotUnserializable
                        \/ d[i].value.value = NotUnserializable

PopulatedBySet == ret.op = "set" /\ ret.kind = "return" /\ raw_value.type = "dict"

\* C1: after set(m) from a raw mapping m, as soon as one stored key element
\* or value element is NotUnserializable, reading value returns
\* NotUnserializable; it neither raises nor returns a partial mapping.
C1_MalformedChildGivesSentinel ==
    (PopulatedBySet /\ Malformed(data)) => Value = Return(NotUnserializable)

Coerces(schema, raw) == Unserialize(schema, raw) # NotUnserializable

WellFormed(m) ==
    \A i \in DOMAIN m.items : /\ Coerces(member_schema[1], m.items[i][1])
                              /\ Coerces(member_schema[2], m.items[i][2])

CoercedMapping(m) ==
    [i \in DOMAIN m.items |-> <<Unserialize(member_schema[1], m.items[i][1]),
                                Unserialize(member_schema[2], m.items[i][2])>>]

\* C2: round trip. After set(m) from a raw mapping m whose keys and values
\* all coerce, value is the plain mapping from the coerced form of each key
\* of m to the coerced form of its value, one entry per key of m, also when
\* a key's coerced form differs from its raw form.
C2_RoundTrip ==
    (PopulatedBySet /\ WellFormed(raw_value))
        => Value = Return(PyDict(CoercedMapping(raw_value)))

TraversesAll(prefix, path) ==
    LET t == Traverse(data, prefix)
    IN  /\ t.kind = "return"
        /\ Len(t.leaves) = 2 * Len(data)
        /\ \A i \in DOMAIN data :
              /\ t.leaves[2 * i - 1] = Leaf(path \o <<i - 1, 0>>, data[i].key)
              /\ t.leaves[2 * i] = Leaf(path \o <<i - 1, 1>>, data[i].value)

\* C8: traverse(prefix) of a mapping with n entries yields exactly 2n leaves:
\* for the i-th entry its key element under prefix+[i,0], then the value
\* element of that same entry under prefix+[i,1].
C8_TraversePaths ==
    TraversesAll(NoPrefix, <<>>) /\ TraversesAll(Prefix(<<7>>), <<7>>)

\* C4: unserialize returns an intermediate mapping or NotUnserializable for
\* every raw input; it never raises, also not for an iterable whose
\* elements are not pairs.
C4_UnserializeNeverRaises ==
    u_res.kind # "pending"
        => /\ u_res.kind = "return"
           /\ u_res.val = NotUnserializable \/ u_res.val.type = "dict"

\* the raw keys of the entries, in iteration order
IterKeys(d) == [i \in 1..Yielded(d) |-> Iter(d).keys[i].raw_value]

Position(ks, k) == CHOOSE i \in DOMAIN ks : ks[i] = k
Among(ks) == {ks[i] : i \in DOMAIN ks}

\* C3: on an OrderedDict, iteration yields the key elements of the surviving
\* entries in the order their keys were first inserted: in every step the
\* surviving keys keep their relative order (re-assigning a key keeps its
\* place) and a key that was absent before the step comes after all of them
\* (a deleted key that is inserted again goes to the end); iteration
\* completes and yields one key element per entry. The steps are the
\* assignments, deletions and pops (and setdefault, clear and |=, which
\* assigns); move_to_end, which reorders on request, is not one of them.
C3_InsertionOrder ==
    [][(cls = "OrderedDict" /\ ret'.op # "move_to_end") =>
        LET old == IterKeys(data)
            new == IterKeys(data')
        IN  /\ Iter(data').kind = "return"
            /\ Len(new) = Len(data')
            /\ \A i, j \in DOMAIN new : new[i] = new[j] => i = j
            /\ \A k1, k2 \in Among(old) \cap Among(new) :
                  Position(old, k1) < Position(old, k2)
                      => Position(new, k1) < Position(new, k2)
            /\ \A k1 \in Among(new) \ Among(old), k2 \in Among(old) \cap Among(new) :
                  Position(new, k2) < Position(new, k1)
            /\ ret'.op = "__setitem__" /\ ret'.args[1] \in Among(old)
                  => new = old]_vars

\* an entry of three was deleted or popped: two entries survive it
C3_Witness ==
    /\ cls = "OrderedDict"
    /\ ret.op \in {"__delitem__", "pop"}
    /\ ret.kind = "return"
    /\ Len(IterKeys(data)) = 2
    /\ ret.args[1] \notin Among(IterKeys(data))

\* C5: on a non-empty OrderedDict popitem(last=true) removes and returns the
\* entry inserted last and popitem(last=false) the oldest one, the other
\* entries staying as they are and in order; popitem fails with KeyError
\* only on an empty container.
C5_Popitem ==
    [][(cls = "OrderedDict" /\ ret'.op = "popitem") =>
        IF data = <<>>
        THEN ret'.kind = "raise" /\ ret'.exc = "KeyError" /\ data' = data
        ELSE LET i == IF ret'.last THEN Len(data) ELSE 1
             IN  /\ ret'.kind = "return"
                 /\ ret'.kelem = data[i].key
                 /\ ret'.elem = data[i].value
                 /\ data' = SubSeq(data, 1, i - 1) \o SubSeq(data, i + 1, Len(data))]_vars

\* C6: pop(key) on a present key removes exactly that entry and returns its
\* value element; on an absent key pop(key) fails with KeyError and
\* pop(key, fallback) returns the value schema applied to fallback, and in
\* both absent-key cases the entries are unchanged.
C6_Pop ==
    [][(ret'.op = "pop" /\ Len(ret'.args) <= 2) =>
        LET key == ret'.args[1]
            present == {i \in DOMAIN data : data[i].k = key}
        IN  IF present # {}
            THEN /\ ret'.kind = "return"
                 /\ \E i \in present :
                       /\ ret'.elem = data[i].value
                       /\ data' = SubSeq(data, 1, i - 1) \o SubSeq(data, i + 1, Len(data))
            ELSE /\ data' = data
                 /\ IF Len(ret'.args) = 1
                    THEN ret'.kind = "raise" /\ ret'.exc = "KeyError"
                    ELSE /\ ret'.kind = "return"
                         /\ ret'.elem = [raw_value |-> ret'.args[2],
                                         value |-> Unserialize(member_schema[2], ret'.args[2]),
                                         is_valid |-> "None", errors |-> <<>>]]_vars

\* the keys of a sequence of pairs in the order of their first mention,
\* leaving out the keys in seen
RECURSIVE FirstMentions(_, _)
FirstMentions(pairs, seen) ==
    IF pairs = <<>> THEN <<>>
    ELSE IF Head(pairs)[1] \in seen THEN FirstMentions(Tail(pairs), seen)
    ELSE <<Head(pairs)[1]>> \o FirstMentions(Tail(pairs), seen \cup {Head(pairs)[1]})

\* the value the last pair that mentions k gives it
LastMention(pairs, k) ==
    pairs[CHOOSE i \in DOMAIN pairs :
            /\ pairs[i][1] = k
            /\ \A j \in DOMAIN pairs : pairs[j][1] = k => j <= i][2]

\* C7: update(source, **overrides) leaves the entries as assigning each pair
\* of the source in its order and then each override would: a key in both
\* ends with the override's value, unmentioned keys keep their entries (and
\* place), new keys follow in the order of their first mention. With more
\* than one positional source it fails with TypeError and changes nothing.
C7_Update ==
    [][ret'.op = "update" =>
        IF Len(ret'.args) > 1
        THEN ret'.kind = "raise" /\ ret'.exc = "TypeError" /\ data' = data
        ELSE LET source == IF ret'.args = <<>> THEN <<>> ELSE ret'.args[1].items
                 pairs == source \o ret'.kwargs
                 mentioned == {pairs[i][1] : i \in DOMAIN pairs}
                 before == [i \in DOMAIN data |-> data[i].k]
                 keys == before \o FirstMentions(pairs, Among(before))
             IN  /\ ret'.kind = "return"
                 /\ Len(data') = Len(keys)
                 /\ \A i \in DOMAIN keys :
                       /\ data'[i].k = keys[i]
                       /\ keys[i] \notin mentioned => data'[i] = data[i]
                       /\ keys[i] \in mentioned =>
                             /\ data'[i].key.raw_value = keys[i]
                             /\ data'[i].value.raw_value = LastMention(pairs, keys[i])
                             /\ data'[i].value.value =
                                   Unserialize(member_schema[2], LastMention(pairs, keys[i]))
                 /\ \A i \in DOMAIN ret'.kwargs :
                       \E j \in DOMAIN data' :
                           /\ data'[j].k = ret'.kwargs[i][1]
                           /\ data'[j].value.raw_value = ret'.kwargs[i][2]]_vars

\* a key given by the source and by an override, with different values
C7_Witness ==
    /\ ret.op = "update"
    /\ ret.kind = "return"
    /\ Len(ret.args) = 1
    /\ \E i \in DOMAIN ret.args[1].items, j \in DOMAIN ret.kwargs :
          /\ ret.args[1].items[i][1] = ret.kwargs[j][1]
          /\ ret.args[1].items[i][2] # ret.kwargs[j][2]
          /\ \E n \in DOMAIN data : /\ data[n].k = ret.kwargs[j][1]
                                    /\ data[n].value.raw_value = ret.kwargs[j][2]

Passes(e) == ~is_unusable(e)

\* C9: every validate() validates every key element and every value element
\* (it does not stop at a failure) and the mapping's own validators, sets
\* is_valid to the conjunction of all results and returns it; the result
\* depends on the current entries only.
C9_Validate ==
    [][ret'.op = "validate" =>
        LET all == /\ \A i \in DOMAIN data : Passes(data[i].key) /\ Passes(data[i].value)
                   /\ Value.kind = "return"
                   /\ Value.val # Unspecified
        IN  /\ ret'.kind = "return"
            /\ Len(data') = Len(data)
            /\ \A i \in DOMAIN data :
                  /\ data'[i].k = data[i].k
                  /\ data'[i].key.is_valid = IF Passes(data[i].key) THEN "True" ELSE "False"
                  /\ data'[i].value.is_valid = IF Passes(data[i].value) THEN "True" ELSE "False"
            /\ is_valid' = IF all THEN "True" ELSE "False"
            /\ ret'.flag = is_valid']_vars

Usable == element.value # Unspecified /\ element.value # NotUnserializable

Length == IF element.value.type = "str" THEN Len(element.value.s) ELSE -1
Number == element.value.n

\* what the claim says of the last call
Strict ==
    CASE v_res.validator = "ShorterThan" -> Length < v_res.hi
      [] v_res.validator = "LongerThan" -> Length > v_res.lo
      [] v_res.validator = "LengthWithinRange" -> v_res.lo < Length /\ Length < v_res.hi
      [] v_res.validator = "LessThan" -> Number < v_res.hi
      [] v_res.validator = "GreaterThan" -> Number > v_res.lo
      [] v_res.validator = "WithinRange" -> v_res.lo < Number /\ Number < v_res.hi
      [] OTHER -> FALSE

BoundValidators == {"ShorterThan", "LongerThan", "LengthWithinRange",
                    "LessThan", "GreaterThan", "WithinRange"}

\* C10: on an element with a usable value the bound validators are strict:
\* ShorterThan(u) passes iff len(value) < u, LessThan(u) iff value < u,
\* LongerThan(l) iff len(value) > l, GreaterThan(l) iff value > l,
\* LengthWithinRange(s,e) iff s < len(value) < e, WithinRange(s,e) iff
\* s < value < e; a value equal to a bound fails, and a failure returns
\* false and appends one message.
C10_StrictBounds ==
    (v_res.validator \in BoundValidators /\ Usable) =>
        /\ v_res.result <=> Strict
        /\ v_res.result => v_res.noted = 0
        /\ ~v_res.result => v_res.noted = 1 /\ element.errors # <<>>

\* a text as long as the upper bound was refused
C10_Witness ==
    /\ v_res.validator = "ShorterThan"
    /\ Usable
    /\ Length = v_res.hi
    /\ ~v_res.result
    /\ v_res.noted = 1

GuardedValidators ==
    {"IsTrue", "IsFalse", "ShorterThan", "LongerThan", "LengthWithinRange",
     "LessThan", "GreaterThan", "WithinRange", "MatchesRegex", "IsURL"}

\* the message of the validator that ran last
Noted ==
    CASE v_res.validator = "Converted" -> "Not a valid value."
      [] v_res.validator = "IsTrue" -> "Must be true."
      [] v_res.validator = "IsFalse" -> "Must be false."
      [] v_res.validator = "ShorterThan" -> ShorterThanMessage(v_res.hi)
      [] v_res.validator = "LongerThan" -> LongerThanMessage(v_res.lo)
      [] v_res.validator = "LengthWithinRange" -> LengthWithinRangeMessage(v_res.lo, v_res.hi)
      [] v_res.validator = "LessThan" -> LessThanMessage(v_res.hi)
      [] v_res.validator = "GreaterThan" -> GreaterThanMessage(v_res.lo)
      [] v_res.validator = "WithinRange" -> WithinRangeMessage(v_res.lo, v_res.hi)
      [] v_res.validator = "MatchesRegex" -> "Must be a valid value."
      [] v_res.validator = "IsURL" -> "Must be a URL."
      [] OTHER -> ""

\* a validator ran in this step
Runs == <<element, v_res>>' # <<element, v_res>>

\* C11 as stated: on an element whose value is Unspecified or
\* NotUnserializable, the validators of one pass leave one message, the
\* coercion validator's: Converted notes its message and a guarded
\* validator (IsTrue, IsFalse, ShorterThan, LongerThan, LengthWithinRange,
\* LessThan, GreaterThan, WithinRange, MatchesRegex, IsURL) notes nothing.
C11_ReportedOnce ==
    [][(is_unusable(element) /\ Runs) =>
        /\ v_res'.validator = "Converted" =>
              element'.errors = Append(element.errors, "Not a valid value.")
        /\ v_res'.validator \in GuardedValidators =>
              element'.errors = element.errors]_vars

\* C11, amended: on an element whose value is Unspecified or
\* NotUnserializable, Converted and every guarded validator that runs
\* returns false and appends exactly one message, its own, after those
\* already noted; the value is left as it was.
C11_EachNotesItsOwn ==
    [][(is_unusable(element) /\ Runs
        /\ v_res'.validator \in GuardedValidators \cup {"Converted"}) =>
        /\ ~v_res'.result
        /\ v_res'.noted = 1
        /\ element'.errors = Append(element.errors, Noted')
        /\ element'.value = element.value
        /\ element'.raw_value = element.raw_value]_vars

\* Converted and then a guarded validator ran on an unusable element: two
\* messages
C11_Witness ==
    /\ is_unusable(element)
    /\ v_res.validator \in GuardedValidators
    /\ ~v_res.result
    /\ Len(element.errors) = 2
    /\ element.errors[1] = "Not a valid value."
    /\ element.errors[2] = Noted

\* C12: only validate() changes the mapping's is_valid: it is unset from
\* construction on, and set(raw), key assignment, setdefault, update,
\* delete, pop and popitem leave it exactly as it was, whether they return
\* or raise and whether or not the raw input unserializes and the keys and
\* values coerce.
C12_OnlyValidate ==
    /\ is_valid = "None"
    /\ [][ret'.op # "validate" => is_valid' = is_valid]_vars

\* a failed validate() was followed by the assignment of a key that fails
\* coercion: the entry is there, the verdict is as it was
C12_Witness ==
    /\ ret.op = "__setitem__"
    /\ ret.kind = "return"
    /\ \E i \in DOMAIN data : /\ data[i].k = ret.args[1]
                               /\ ~data[i].bare
                               /\ data[i].key.value = NotUnserializable
    /\ is_valid = "False"

====
